---- MODULE Spec2Model ----
(***************************************************************************)
(* Message routing and delivery pipeline of the communication platform:    *)
(*   task-router-service/src/router.js  (sendMessage, checkDuplicate,      *)
(*                                       routeMessage)                     *)
(*   delivery-service consumer          (processMessage, deliverWithRetry, *)
(*                                       handleDeliveryError)              *)
(*   delivery-service handlers          (handleEmailDelivery, ...)         *)
(*                                                                         *)
(* Strings whose content matters (recipient, subject, body) are tuples of  *)
(* one-character strings, so that the validation regexes and the pre-hash  *)
(* string of the dedup key are computed, not assumed.                      *)
(***************************************************************************)
EXTENDS Integers, Sequences, FiniteSets, Bags, TLC

(***************************************************************************)
(* Bounds of the model                                                     *)
(***************************************************************************)
\* number of sendMessage calls of one run
MaxRequests == 2
\* number of routed messages that the delivery service is given
MaxMessages == 1
\* the clock stops advancing after this many clock steps
MaxTicks == 2
\* the per-message counter of handler invocations saturates at this value
MaxCount == 5

(***************************************************************************)
(* Program constants                                                       *)
(***************************************************************************)
\* router.js:99  setEx(key, 86400, "1")
DEDUP_TTL_SECONDS == 86400
\* router.js:121  message.maxRetries = 3
MAX_RETRIES == 3
\* consumer 81/184: destructuring defaults  retryCount = 0, maxRetries = 3
DEFAULT_RETRY_COUNT == 0
DEFAULT_MAX_RETRIES == 3
\* consumer 154: const delays = [1000, 2000, 4000]
delays == <<1000, 2000, 4000>>
\* granularity of the model clock, in seconds (half the dedup window)
TickSeconds == DEDUP_TTL_SECONDS \div 2

Channels == {"email", "sms", "whatsapp"}

\* router.js:17-22 / consumer 15-20
QUEUES == [email |-> "email_queue", sms |-> "sms_queue",
           whatsapp |-> "whatsapp_queue", dlq |-> "dead_letter_queue"]

QueueNames == {QUEUES[k] : k \in DOMAIN QUEUES}

\* null (messageId of an error response) and undefined (a field that an
\* object does not have); identifiers are positive integers
Null == 0
Undefined == 0 - 1

(***************************************************************************)
(* Input validation (resolvers, sendMessage 433-453, isValidEmail,         *)
(* isValidPhone)                                                           *)
(***************************************************************************)
Digits == {"0", "1", "2", "3", "4", "5", "6", "7", "8", "9"}
Whitespace == {" "}

\* [^\s@]
NotSpaceNorAt(ch) == ch \notin Whitespace /\ ch # "@"

\* /^[^\s@]+@[^\s@]+\.[^\s@]+$/
isValidEmail(email) ==
    \E i \in 1..Len(email) : \E j \in 1..Len(email) :
        /\ email[i] = "@"
        /\ email[j] = "."
        /\ 1 < i
        /\ i + 1 < j
        /\ j < Len(email)
        /\ \A k \in 1..Len(email) : k # i => NotSpaceNorAt(email[k])

\* /^\+?[1-9]\d{1,14}$/
isValidPhone(phone) ==
    LET t == IF Len(phone) > 0 /\ phone[1] = "+" THEN Tail(phone) ELSE phone
    IN  /\ Len(t) >= 2
        /\ Len(t) <= 15
        /\ t[1] \in Digits \ {"0"}
        /\ \A k \in 2..Len(t) : t[k] \in Digits

\* JavaScript !s for a string (empty, null and undefined are falsy; an
\* omitted optional field is the empty tuple here)
Falsy(s) == s = <<>>

ValidationWithoutPhoneCheck(input) ==
    IF Falsy(input.recipient) \/ Falsy(input.body)
      THEN "Recipient and body are required"
    ELSE IF input.channel = "email" /\ Falsy(input.subject)
      THEN "Subject is required for email messages"
    ELSE IF input.channel = "email" /\ ~isValidEmail(input.recipient)
      THEN "Invalid email address"
    ELSE "ok"

\* the message of the first validation error thrown by sendMessage, or
\* "ok" when the input passes
Validation(input) ==
    IF Falsy(input.recipient) \/ Falsy(input.body)
      THEN "Recipient and body are required"
    ELSE IF input.channel = "email" /\ Falsy(input.subject)
      THEN "Subject is required for email messages"
    ELSE IF input.channel = "email" /\ ~isValidEmail(input.recipient)
      THEN "Invalid email address"
    ELSE IF input.channel \in {"sms", "whatsapp"} /\ ~isValidPhone(input.recipient)
      THEN "Invalid phone number format"
    ELSE "ok"

Valid(input) == Validation(input) = "ok"

(***************************************************************************)
(* The inputs of the model                                                 *)
(***************************************************************************)
MkInput(ch, rcpt, subj, body) ==
    [channel |-> ch, recipient |-> rcpt, subject |-> subj, body |-> body]

Inputs ==
    { MkInput("email", <<"a", "@", "b", ".", "c">>, <<"H", "i">>, <<"x">>),
      \* same channel, recipient and body, no subject
      MkInput("email", <<"a", "@", "b", ".", "c">>, <<>>, <<"x">>),
      MkInput("email", <<"a", "b", ".", "c">>, <<"H", "i">>, <<"x">>),
      MkInput("sms", <<"+", "1", "2">>, <<>>, <<"x">>),
      MkInput("sms", <<"n", "o", "t">>, <<>>, <<"x">>),
      MkInput("whatsapp", <<"1", "2">>, <<>>, <<"x">>),
      MkInput("whatsapp", <<"1", "2">>, <<>>, <<>>) }

(***************************************************************************)
(* Dedup key (checkDuplicate 88-92)                                        *)
(***************************************************************************)
ChannelChars ==
    [email |-> <<"e", "m", "a", "i", "l">>,
     sms |-> <<"s", "m", "s">>,
     whatsapp |-> <<"w", "h", "a", "t", "s", "a", "p", "p">>]

\* `${input.channel}:${input.recipient}:${input.body}`
PreHash(input) ==
    ChannelChars[input.channel] \o <<":">> \o input.recipient \o <<":">> \o input.body

\* `dedup:${sha256(prehash)}`; SHA-256 is taken to be injective, so the
\* digest is represented by its argument
DedupKey(input) == <<"dedup", PreHash(input)>>

(***************************************************************************)
(* State                                                                   *)
(***************************************************************************)
VARIABLES
    now,        \* wall clock, in seconds
    calls,      \* the sendMessage calls in progress: position, input, flags
    last,       \* the sendMessage call that returned last: what it did, its result
    cache,      \* Redis: dedup key -> expiry time
    queues,     \* RabbitMQ: queue name -> sequence of broker messages
    published,  \* Kafka topic communication-logs: the events appended by the last step
    consumers,  \* delivery service: the consumer of each channel queue
    store,      \* MongoDB collection of Message documents (a bag)
    hist        \* per messageId: what has happened to it (history, not program state)

vars == <<now, calls, last, cache, queues, published, consumers, store, hist>>

deliveryVars == <<consumers, store, hist>>

Requests == 1..MaxRequests

\* uuidv4() is taken to be unique: call r gets trace_<r> and msg_<r>; the
\* two kinds of identifier are kept apart (trace ids are above 100)
TraceIdOf(r) == 100 + r
MessageIdOf(r) == r

NoResult == [success |-> FALSE, messageId |-> Null, traceId |-> Null, message |-> <<"none">>]

\* reserved (the dedup key of the input was live when the call arrived),
\* expiredAt (the expiry time of the reservation of that key, when it had
\* run out before the call arrived; Null when there was none),
\* cacheRead/cacheHit/cacheWrote/cacheError (the Redis commands that the call
\* completed or that failed), submissions/sent/queuedOn (its sendToQueue
\* calls, the value returned, the queues that took its message) record what
\* the call did; they are not read by the program
NewCall ==
    [pc |-> "new", id |-> Null, input |-> MkInput("email", <<>>, <<>>, <<>>),
     traceId |-> Null, reserved |-> FALSE, expiredAt |-> Null, cacheRead |-> FALSE, cacheHit |-> FALSE,
     cacheWrote |-> FALSE, cacheError |-> FALSE, submissions |-> 0, sent |-> "none",
     queuedOn |-> << >>, result |-> NoResult]

DoneCall == [NewCall EXCEPT !.pc = "done"]

(***************************************************************************)
(* Redis                                                                   *)
(***************************************************************************)
\* GET key: the value, if the key is set and has not expired.  An expired
\* key stays in `cache` until it is set again; no command sees it.
CacheGetNeverExpires(key) == key \in DOMAIN cache

CacheGetExpiredOnly(key) == key \in DOMAIN cache /\ now > cache[key]

CacheGet(key) == key \in DOMAIN cache /\ now < cache[key]

\* the key has an unexpired reservation
LiveReservation(key) == \E k \in DOMAIN cache : k = key /\ cache[k] - now > 0

\* the expiry time of the reservation of key, if it has run out
ExpiredReservation(key) ==
    IF \E k \in DOMAIN cache : k = key /\ cache[k] - now <= 0 THEN cache[key] ELSE Null

CacheSetExWithoutTtl(key, ttl) ==
    [k \in (DOMAIN cache) \cup {key} |-> IF k = key THEN now ELSE cache[k]]

\* SETEX key ttl value
CacheSetEx(key, ttl) ==
    [k \in (DOMAIN cache) \cup {key} |-> IF k = key THEN now + ttl ELSE cache[k]]

(***************************************************************************)
(* Kafka: sendLog (router.js 180-195, consumer 233-248).  A failed send is *)
(* caught and reported on the console; the event is not published.  The    *)
(* topic is append-only and none of these services reads it: the state     *)
(* keeps the events that the last step appended to it.                     *)
(***************************************************************************)
sendLog(batch, logData, kafkaOk) ==
    IF kafkaOk THEN Append(batch, logData) ELSE batch

(***************************************************************************)
(* JSON.stringify / JSON.parse of a message object                         *)
(***************************************************************************)
Stringify(obj) == [json |-> TRUE, text |-> obj]
Parses(content) == content.json
Parse(content) == content.text

(***************************************************************************)
(* sendMessage (resolvers 423-512), first part: validation (433-453) and   *)
(* the GET of checkDuplicate (86-96, 101-105)                              *)
(***************************************************************************)
ErrorResult(traceId, text) ==
    [success |-> FALSE, messageId |-> Null, traceId |-> traceId,
     message |-> <<"Error: ", text>>]

DuplicateResult(traceId) ==
    [success |-> FALSE, messageId |-> Null, traceId |-> traceId,
     message |-> <<"Duplicate message detected">>]

QueuedResult(traceId, messageId) ==
    [success |-> TRUE, messageId |-> messageId, traceId |-> traceId,
     message |-> <<"Message queued successfully">>]

\* the call returns: its record becomes `last`
Return(r, rec, result) ==
    /\ last' = [rec EXCEPT !.pc = "done", !.result = result]
    /\ calls' = [calls EXCEPT ![r] = DoneCall]

sendMessage(r, input, redisOk) ==
    /\ calls[r].pc = "new"
    /\ \A p \in Requests : p < r => calls[p].pc # "new"
    /\ LET traceId == TraceIdOf(r)
           c0 == [calls[r] EXCEPT !.id = r, !.input = input, !.traceId = traceId,
                                  !.reserved = LiveReservation(DedupKey(input)),
                                  !.expiredAt = ExpiredReservation(DedupKey(input))]
       IN  IF ~Valid(input)
             THEN Return(r, c0, ErrorResult(traceId, Validation(input)))
           ELSE IF ~redisOk
             \* the GET rejects: catch, return false
             THEN /\ calls' = [calls EXCEPT ![r] =
                        [c0 EXCEPT !.pc = "route", !.cacheError = TRUE]]
                  /\ last' = last
           ELSE IF CacheGet(DedupKey(input))
             THEN Return(r, [c0 EXCEPT !.cacheRead = TRUE, !.cacheHit = TRUE],
                         DuplicateResult(traceId))
           ELSE   /\ calls' = [calls EXCEPT ![r] =
                        [c0 EXCEPT !.pc = "set", !.cacheRead = TRUE]]
                  /\ last' = last
    /\ published' = << >>
    /\ UNCHANGED <<now, cache, queues, deliveryVars>>

(***************************************************************************)
(* checkDuplicate, second part: the SETEX (98-105)                          *)
(***************************************************************************)
checkDuplicateSetFailClosed(r, redisOk) ==
    /\ calls[r].pc = "set"
    /\ IF redisOk
         THEN /\ cache' = CacheSetEx(DedupKey(calls[r].input), DEDUP_TTL_SECONDS)
              /\ calls' = [calls EXCEPT ![r].pc = "route", ![r].cacheWrote = TRUE]
              /\ last' = last
         ELSE /\ cache' = cache
              /\ Return(r, [calls[r] EXCEPT !.cacheError = TRUE],
                        DuplicateResult(calls[r].traceId))
    /\ published' = << >>
    /\ UNCHANGED <<now, queues, deliveryVars>>

checkDuplicateSet(r, redisOk) ==
    /\ calls[r].pc = "set"
    /\ IF redisOk
         THEN /\ cache' = CacheSetEx(DedupKey(calls[r].input), DEDUP_TTL_SECONDS)
              /\ calls' = [calls EXCEPT ![r].pc = "route", ![r].cacheWrote = TRUE]
         ELSE /\ cache' = cache
              /\ calls' = [calls EXCEPT ![r].pc = "route", ![r].cacheError = TRUE]
    /\ published' = << >>
    /\ UNCHANGED <<now, last, queues, deliveryVars>>

(***************************************************************************)
(* routeMessage (108-178) and the rest of sendMessage (472-511)            *)
(***************************************************************************)
\* QUEUES[channel] is undefined for a key the object does not have
HasQueue(channel) == channel \in DOMAIN QUEUES

QueueForAlwaysEmail(channel) == QUEUES.email

QueueForDeadLetter(channel) == IF channel = "sms" THEN QUEUES.dlq ELSE QUEUES[channel]

QueueFor(channel) == QUEUES[channel]

\* Date.now() as used for `subtrace_${Date.now()}`
NewSubtraceId == now

\* the object built at 474-480 with the fields set at 120-122
RoutedMessage(messageId, traceId, input, subtraceId) ==
    [messageId |-> messageId, traceId |-> traceId,
     channel |-> input.channel, recipient |-> input.recipient,
     subject |-> input.subject, body |-> input.body,
     status |-> "queued", retryCount |-> 0, maxRetries |-> MAX_RETRIES,
     subtraceId |-> subtraceId]

BrokerMessage(message) ==
    [content |-> Stringify(message),
     headers |-> [retryCount |-> 0, traceId |-> message.traceId,
                  subtraceId |-> message.subtraceId]]

RouterEventAlwaysInfo(level, text, message, error) ==
    [service |-> "router", level |-> "info", message |-> text,
     traceId |-> message.traceId, subtraceId |-> message.subtraceId,
     messageId |-> message.messageId, channel |-> message.channel,
     retryCount |-> Undefined, error |-> error, timestamp |-> now]

RouterEvent(level, text, message, error) ==
    [service |-> "router", level |-> level, message |-> text,
     traceId |-> message.traceId, subtraceId |-> message.subtraceId,
     messageId |-> message.messageId, channel |-> message.channel,
     retryCount |-> Undefined, error |-> error, timestamp |-> now]

\* history: the call whose message is enqueued had read its dedup key as
\* absent and had written it, both Redis commands succeeding
NoteDedup(h, call) ==
    [h EXCEPT ![MessageIdOf(call.id)].deduped =
        call.cacheRead /\ ~call.cacheHit /\ call.cacheWrote /\ ~call.cacheError]

routeMessageLogThrows(r, sent, kafkaOk) ==
    /\ calls[r].pc = "route"
    /\ LET traceId == calls[r].traceId
           message == RoutedMessage(MessageIdOf(r), traceId, calls[r].input, NewSubtraceId)
       IN  IF ~HasQueue(message.channel)
             THEN /\ queues' = queues
                  /\ hist' = hist
                  /\ published' = sendLog(<< >>, RouterEvent("error", "Failed to route message", message, "Unknown channel"), kafkaOk)
                  /\ Return(r, calls[r], ErrorResult(traceId, "Unknown channel"))
           ELSE IF sent
             THEN /\ queues' = [queues EXCEPT ![QueueFor(message.channel)] =
                                    Append(@, BrokerMessage(message))]
                  /\ published' = sendLog(<< >>, RouterEvent("info", "Message routed to queue", message, "undefined"), kafkaOk)
                  /\ hist' = NoteDedup(hist, calls[r])
                  /\ Return(r, [calls[r] EXCEPT !.submissions = @ + 1, !.sent = "true",
                                   !.queuedOn = Append(@, QueueFor(message.channel))],
                            IF kafkaOk THEN QueuedResult(traceId, message.messageId)
                                       ELSE ErrorResult(traceId, "Kafka error"))
           ELSE   /\ queues' = queues
                  /\ hist' = hist
                  /\ published' = sendLog(<< >>, RouterEvent("error", "Failed to route message", message, "Failed to send message to queue"), kafkaOk)
                  /\ Return(r, [calls[r] EXCEPT !.submissions = @ + 1, !.sent = "false"],
                            ErrorResult(traceId, "Failed to send message to queue"))
    /\ UNCHANGED <<now, cache, consumers, store>>

\* sent: the value returned by rabbitChannel.sendToQueue
routeMessage(r, sent, kafkaOk) ==
    /\ calls[r].pc = "route"
    /\ LET traceId == calls[r].traceId
           message == RoutedMessage(MessageIdOf(r), traceId, calls[r].input, NewSubtraceId)
       IN  IF ~HasQueue(message.channel)
             THEN /\ queues' = queues
                  /\ hist' = hist
                  /\ published' = sendLog(<< >>, RouterEvent("error", "Failed to route message", message, "Unknown channel"), kafkaOk)
                  /\ Return(r, calls[r], ErrorResult(traceId, "Unknown channel"))
           ELSE IF sent
             THEN /\ queues' = [queues EXCEPT ![QueueFor(message.channel)] =
                                    Append(@, BrokerMessage(message))]
                  /\ published' = sendLog(<< >>, RouterEvent("info", "Message routed to queue", message, "undefined"), kafkaOk)
                  /\ hist' = NoteDedup(hist, calls[r])
                  /\ Return(r, [calls[r] EXCEPT !.submissions = @ + 1, !.sent = "true",
                                   !.queuedOn = Append(@, QueueFor(message.channel))],
                            QueuedResult(traceId, message.messageId))
           ELSE   /\ queues' = queues
                  /\ hist' = hist
                  /\ published' = sendLog(<< >>, RouterEvent("error", "Failed to route message", message, "Failed to send message to queue"), kafkaOk)
                  /\ Return(r, [calls[r] EXCEPT !.submissions = @ + 1, !.sent = "false"],
                            ErrorResult(traceId, "Failed to send message to queue"))
    /\ UNCHANGED <<now, cache, consumers, store>>

(***************************************************************************)
(* Delivery service                                                        *)
(***************************************************************************)
\* A consumer runs for each of email, sms and whatsapp (52-63), and HANDLERS
\* (22-26) has a handler for each of them: the lookup of 106-109 succeeds.

IdleConsumer ==
    [pc |-> "idle", msg |-> << >>, message |-> [messageId |-> Undefined], retryCount |-> 0,
     maxRetries |-> 0, subtraceId |-> Undefined, delay |-> 0, waits |-> << >>]

MessageIds == Requests

\* attempts: handler invocations; acked, requeued: how a processing run of
\* the message has ended; retryCount: the retryCount that the service last
\* worked with for the message
NoHistory == [attempts |-> 0, acked |-> FALSE, requeued |-> FALSE, retryCount |-> 0,
              deduped |-> FALSE]

Bump(n) == IF n < MaxCount THEN n + 1 ELSE n

\* a field of a parsed object, or the destructuring default (consumer 81, 184)
Field(obj, name, default) == IF name \in DOMAIN obj THEN obj[name] ELSE default

(***************************************************************************)
(* MongoDB: Message.findOneAndUpdate(filter, update, {upsert: true})       *)
(* (handlers 301-316, 331-348); schema defaults 269-280                    *)
(***************************************************************************)
DocsOf(docs, messageId) == {d \in BagToSet(docs) : d.messageId = messageId}

SchemaDefaults == [status |-> "queued", retryCount |-> 0, errorMessage |-> "undefined"]

\* the fields of update overwrite, the other fields stay ($set semantics)
Merge(doc, update) ==
    [f \in DOMAIN doc \cup DOMAIN update |->
        IF f \in DOMAIN update THEN update[f] ELSE doc[f]]

findOneAndUpdateInsertAlways(docs, messageId, update) ==
    docs (+) SetToBag({Merge(SchemaDefaults, update)})

findOneAndUpdate(docs, messageId, update) ==
    IF DocsOf(docs, messageId) = {}
      THEN docs (+) SetToBag({Merge(SchemaDefaults, update)})
      ELSE LET d == CHOOSE x \in DocsOf(docs, messageId) : TRUE
           IN  (docs (-) SetToBag({d})) (+) SetToBag({Merge(d, update)})

\* handlers 303-314: the update of a successful delivery
DeliveredUpdate(channelType, message) ==
    [messageId |-> message.messageId, traceId |-> message.traceId,
     channel |-> channelType, recipient |-> message.recipient,
     body |-> message.body, status |-> "delivered"]

FailedUpdateAsEmail(channelType, message, errorMessage) ==
    [messageId |-> message.messageId, traceId |-> message.traceId,
     channel |-> "email", recipient |-> message.recipient,
     body |-> message.body, status |-> "failed", errorMessage |-> errorMessage,
     retryCount |-> Field(message, "retryCount", 0)]

\* handlers 333-346: the update of a failed delivery
FailedUpdate(channelType, message, errorMessage) ==
    [messageId |-> message.messageId, traceId |-> message.traceId,
     channel |-> channelType, recipient |-> message.recipient,
     body |-> message.body, status |-> "failed", errorMessage |-> errorMessage,
     retryCount |-> Field(message, "retryCount", 0)]

(***************************************************************************)
(* processMessage (75-151), first part: parse, start event (79-109)        *)
(***************************************************************************)
DeliveryEventTraceDropped(level, text, message, subtraceId, channelType, retryCount, error) ==
    [service |-> "delivery", level |-> level, message |-> text,
     traceId |-> Undefined, subtraceId |-> subtraceId,
     messageId |-> Field(message, "messageId", Undefined), channel |-> channelType,
     retryCount |-> retryCount, error |-> error, timestamp |-> now]

DeliveryEvent(level, text, message, subtraceId, channelType, retryCount, error) ==
    [service |-> "delivery", level |-> level, message |-> text,
     traceId |-> Field(message, "traceId", Undefined), subtraceId |-> subtraceId,
     messageId |-> Field(message, "messageId", Undefined), channel |-> channelType,
     retryCount |-> retryCount, error |-> error, timestamp |-> now]

\* channel.nack(msg, false, requeue): back to the head of its queue, or
\* dead-lettered by the broker to x-dead-letter-routing-key (router.js 50-53)
Nack(qs, queueName, msg, requeue) ==
    IF requeue
      THEN [qs EXCEPT ![queueName] = <<msg>> \o @]
      ELSE [qs EXCEPT ![QUEUES.dlq] = Append(@, msg)]

DeadLettersOneEarly(message) ==
    Field(message, "retryCount", DEFAULT_RETRY_COUNT) + 1
        >= Field(message, "maxRetries", DEFAULT_MAX_RETRIES)

DeadLettersAtOnce(message) ==
    Field(message, "retryCount", DEFAULT_RETRY_COUNT) >= 0

\* handleDeliveryError 207: retryCount >= maxRetries, with the destructuring
\* defaults of 184 (message is undefined when the parse failed)
DeadLetters(message) ==
    Field(message, "retryCount", DEFAULT_RETRY_COUNT)
        >= Field(message, "maxRetries", DEFAULT_MAX_RETRIES)

NoteSettle(h, message, requeue) ==
    IF "messageId" \in DOMAIN message /\ message.messageId \in MessageIds
      THEN [h EXCEPT ![message.messageId] =
              IF requeue THEN [@ EXCEPT !.requeued = TRUE] ELSE @]
      ELSE h

NoteRetryCount(h, message, retryCount) ==
    IF "messageId" \in DOMAIN message /\ message.messageId \in MessageIds
      THEN [h EXCEPT ![message.messageId].retryCount = retryCount]
      ELSE h

\* handleDeliveryError (183-231): error event, then the DLQ event and
\* nack(msg, false, false), or nack(msg, false, true).  qs is the broker state
\* with msg delivered and not yet acknowledged, h the history so far.
handleDeliveryError(c, qs, h, msg, message, errorMessage, kafkaOk1, kafkaOk2) ==
    LET retryCount == Field(message, "retryCount", DEFAULT_RETRY_COUNT)
        ev1 == DeliveryEvent("error", "Message delivery failed", message,
                             Undefined, c, retryCount, errorMessage)
        ev2 == DeliveryEvent("error", "Max retries exceeded, moved to DLQ", message,
                             Undefined, c, Undefined, "undefined")
        batch1 == sendLog(<< >>, ev1, kafkaOk1)
    IN  /\ published' = IF DeadLetters(message) THEN sendLog(batch1, ev2, kafkaOk2) ELSE batch1
        /\ queues' = Nack(qs, QUEUES[c], msg, ~DeadLetters(message))
        /\ hist' = NoteSettle(h, message, ~DeadLetters(message))
        /\ consumers' = [consumers EXCEPT ![c] = IdleConsumer]

\* the count of a prefetch limit shared by the whole AMQP channel
UnackedOnChannel(c) ==
    IF \E c2 \in Channels : consumers[c2].pc # "idle" THEN 1 ELSE 0

\* the messages delivered to the consumer of channel c and not yet settled
Unacked(c) == IF consumers[c].pc = "idle" THEN 0 ELSE 1

\* channel.prefetch(1): the limit of unacknowledged messages of a consumer
prefetch == 1

WithinPrefetchOfTwo(c) == Unacked(c) < prefetch + 1

\* the broker hands the consumer of channel c a further message
WithinPrefetch(c) == Unacked(c) < prefetch

processMessage(c, kafkaOk1) ==
    /\ WithinPrefetch(c)
    /\ queues[QUEUES[c]] # << >>
    /\ LET msg == Head(queues[QUEUES[c]])
           unacked == [queues EXCEPT ![QUEUES[c]] = Tail(@)]
       IN  IF ~Parses(msg.content)
             \* JSON.parse throws: message stays undefined
             THEN handleDeliveryError(c, unacked, hist, msg, << >>, "Unexpected token",
                                      kafkaOk1, TRUE)
             ELSE LET message == Parse(msg.content)
                      retryCount == Field(message, "retryCount", DEFAULT_RETRY_COUNT)
                      maxRetries == Field(message, "maxRetries", DEFAULT_MAX_RETRIES)
                      subtraceId == NewSubtraceId
                  IN  /\ queues' = unacked
                      /\ published' = sendLog(<< >>,
                                    DeliveryEvent("info", "Started message delivery",
                                                  message, subtraceId, c, retryCount,
                                                  "undefined"),
                                    kafkaOk1)
                      /\ consumers' = [consumers EXCEPT ![c] =
                                         [pc |-> "attempt", msg |-> msg, message |-> message,
                                          retryCount |-> retryCount, maxRetries |-> maxRetries,
                                          subtraceId |-> subtraceId, delay |-> 0,
                                          waits |-> << >>]]
                      /\ hist' = NoteRetryCount(hist, message, retryCount)
    /\ UNCHANGED <<now, calls, last, cache, store>>

(***************************************************************************)
(* The delivery handlers (286-361, 364-436, 439-511) and simulateDelivery  *)
(* (514-524).  sendOk: simulateDelivery returns; storeOk1, storeOk2: the   *)
(* upsert of the try block / of the catch block resolves.                  *)
(***************************************************************************)
SimulatedFailure == "Simulated delivery failure"
StoreFailure == "MongoDB error"

handlerIgnoresStoreFailure(c, message, docs, sendOk, storeOk1, storeOk2) ==
    IF sendOk
      THEN [result |-> "success", error |-> "undefined",
            docs |-> IF storeOk1
                       THEN findOneAndUpdate(docs, message.messageId,
                                             DeliveredUpdate(c, message))
                       ELSE docs]
    ELSE IF storeOk2
      THEN [result |-> "failure", error |-> SimulatedFailure,
            docs |-> findOneAndUpdate(docs, message.messageId,
                                      FailedUpdate(c, message, SimulatedFailure))]
    ELSE [result |-> "throw", error |-> StoreFailure, docs |-> docs]

\* the value the handler returns ("throw" when it rejects), the error
\* message, and the collection after it
handler(c, message, docs, sendOk, storeOk1, storeOk2) ==
    IF sendOk /\ storeOk1
      THEN [result |-> "success", error |-> "undefined",
            docs |-> findOneAndUpdate(docs, message.messageId, DeliveredUpdate(c, message))]
    ELSE LET error == IF sendOk THEN StoreFailure ELSE SimulatedFailure
         IN  IF storeOk2
               THEN [result |-> "failure", error |-> error,
                     docs |-> findOneAndUpdate(docs, message.messageId,
                                               FailedUpdate(c, message, error))]
               ELSE [result |-> "throw", error |-> StoreFailure, docs |-> docs]

(***************************************************************************)
(* deliverWithRetry (153-181), one invocation of the handler, and what     *)
(* processMessage does with its result (119-150)                           *)
(***************************************************************************)
DelayForNextIndex(retryCount) ==
    IF retryCount + 2 <= Len(delays) THEN delays[retryCount + 2] ELSE delays[Len(delays)]

\* delays[retryCount] || delays[delays.length - 1]
DelayFor(retryCount) ==
    IF retryCount + 1 <= Len(delays) THEN delays[retryCount + 1] ELSE delays[Len(delays)]

NoteAttempt(h, messageId) ==
    [h EXCEPT ![messageId].attempts = Bump(@)]

deliverWithRetryOnceMore(c, sendOk, storeOk1, storeOk2, kafkaOk1, kafkaOk2) ==
    /\ consumers[c].pc = "attempt"
    \* the second sendLog is made on the dead-letter branch only
    /\ kafkaOk2 \/ DeadLetters(consumers[c].message)
    /\ LET me == consumers[c]
           message == me.message
           r == handler(c, message, store, sendOk, storeOk1, storeOk2)
           h1 == NoteAttempt(hist, message.messageId)
       IN  /\ store' = r.docs
           /\ IF r.result = "success"
                \* channel.ack(msg), success event
                THEN /\ queues' = queues
                     /\ published' = sendLog(<< >>,
                                   DeliveryEvent("info", "Message delivered successfully",
                                                 message, me.subtraceId, c, Undefined,
                                                 "undefined"),
                                   kafkaOk1)
                     /\ consumers' = [consumers EXCEPT ![c] = IdleConsumer]
                     /\ hist' = [h1 EXCEPT ![message.messageId].acked = TRUE]
              ELSE IF r.result = "throw" /\ me.retryCount <= me.maxRetries
                \* catch of deliverWithRetry: wait, then retry in process
                THEN /\ consumers' = [consumers EXCEPT ![c].pc = "backoff",
                                         ![c].delay = DelayFor(me.retryCount),
                                         ![c].waits = Append(@, DelayFor(me.retryCount))]
                     /\ hist' = h1
                     /\ published' = << >>
                     /\ queues' = queues
              \* result.success is false, or the retries are used up
              ELSE handleDeliveryError(c, queues, h1, me.msg, message, r.error,
                                       kafkaOk1, kafkaOk2)
    /\ UNCHANGED <<now, calls, last, cache>>

\* a success sendLog whose failure reaches the catch of processMessage
deliverWithRetryLogThrows(c, sendOk, storeOk1, storeOk2, kafkaOk1, kafkaOk2) ==
    /\ consumers[c].pc = "attempt"
    \* the second sendLog is made on the dead-letter branch only
    /\ kafkaOk2 \/ DeadLetters(consumers[c].message)
    /\ LET me == consumers[c]
           message == me.message
           r == handler(c, message, store, sendOk, storeOk1, storeOk2)
           h1 == NoteAttempt(hist, message.messageId)
       IN  /\ store' = r.docs
           /\ IF r.result = "success"
                \* channel.ack(msg), success event
                THEN /\ queues' = IF kafkaOk1 THEN queues
                                ELSE Nack(queues, QUEUES[c], me.msg, TRUE)
                     /\ published' = sendLog(<< >>,
                                   DeliveryEvent("info", "Message delivered successfully",
                                                 message, me.subtraceId, c, Undefined,
                                                 "undefined"),
                                   kafkaOk1)
                     /\ consumers' = [consumers EXCEPT ![c] = IdleConsumer]
                     /\ hist' = [h1 EXCEPT ![message.messageId].acked = TRUE]
              ELSE IF r.result = "throw" /\ me.retryCount < me.maxRetries
                \* catch of deliverWithRetry: wait, then retry in process
                THEN /\ consumers' = [consumers EXCEPT ![c].pc = "backoff",
                                         ![c].delay = DelayFor(me.retryCount),
                                         ![c].waits = Append(@, DelayFor(me.retryCount))]
                     /\ hist' = h1
                     /\ published' = << >>
                     /\ queues' = queues
              \* result.success is false, or the retries are used up
              ELSE handleDeliveryError(c, queues, h1, me.msg, message, r.error,
                                       kafkaOk1, kafkaOk2)
    /\ UNCHANGED <<now, calls, last, cache>>

deliverWithRetry(c, sendOk, storeOk1, storeOk2, kafkaOk1, kafkaOk2) ==
    /\ consumers[c].pc = "attempt"
    \* the second sendLog is made on the dead-letter branch only
    /\ kafkaOk2 \/ DeadLetters(consumers[c].message)
    /\ LET me == consumers[c]
           message == me.message
           r == handler(c, message, store, sendOk, storeOk1, storeOk2)
           h1 == NoteAttempt(hist, message.messageId)
       IN  /\ store' = r.docs
           /\ IF r.result = "success"
                \* channel.ack(msg), success event
                THEN /\ queues' = queues
                     /\ published' = sendLog(<< >>,
                                   DeliveryEvent("info", "Message delivered successfully",
                                                 message, me.subtraceId, c, Undefined,
                                                 "undefined"),
                                   kafkaOk1)
                     /\ consumers' = [consumers EXCEPT ![c] = IdleConsumer]
                     /\ hist' = [h1 EXCEPT ![message.messageId].acked = TRUE]
              ELSE IF r.result = "throw" /\ me.retryCount < me.maxRetries
                \* catch of deliverWithRetry: wait, then retry in process
                THEN /\ consumers' = [consumers EXCEPT ![c].pc = "backoff",
                                         ![c].delay = DelayFor(me.retryCount),
                                         ![c].waits = Append(@, DelayFor(me.retryCount))]
                     /\ hist' = h1
                     /\ published' = << >>
                     /\ queues' = queues
              \* result.success is false, or the retries are used up
              ELSE handleDeliveryError(c, queues, h1, me.msg, message, r.error,
                                       kafkaOk1, kafkaOk2)
    /\ UNCHANGED <<now, calls, last, cache>>

\* a retry that also hands the message back to the broker
retryAfterBackoffRequeues(c) ==
    /\ consumers[c].pc = "backoff"
    /\ consumers' = [consumers EXCEPT ![c].pc = "attempt",
                        ![c].message.retryCount = consumers[c].retryCount + 1,
                        ![c].retryCount = @ + 1,
                        ![c].delay = 0]
    /\ hist' = NoteRetryCount(hist, consumers[c].message, consumers[c].retryCount + 1)
    /\ published' = << >>
    /\ queues' = Nack(queues, QUEUES[c], consumers[c].msg, TRUE)
    /\ UNCHANGED <<now, calls, last, cache, store>>

\* a retry that writes the new count into the broker message as well
retryAfterBackoffWritesBack(c) ==
    /\ consumers[c].pc = "backoff"
    /\ consumers' = [consumers EXCEPT ![c].pc = "attempt",
                        ![c].message.retryCount = consumers[c].retryCount + 1,
                        ![c].msg.content.text.retryCount = consumers[c].retryCount + 1,
                        ![c].retryCount = @ + 1,
                        ![c].delay = 0]
    /\ hist' = NoteRetryCount(hist, consumers[c].message, consumers[c].retryCount + 1)
    /\ published' = << >>
    /\ UNCHANGED <<now, calls, last, cache, queues, store>>

\* the wait of 170 is over: message.retryCount = retryCount + 1, recursive call
retryAfterBackoff(c) ==
    /\ consumers[c].pc = "backoff"
    /\ consumers' = [consumers EXCEPT ![c].pc = "attempt",
                        ![c].message.retryCount = consumers[c].retryCount + 1,
                        ![c].retryCount = @ + 1,
                        ![c].delay = 0]
    /\ hist' = NoteRetryCount(hist, consumers[c].message, consumers[c].retryCount + 1)
    /\ published' = << >>
    /\ UNCHANGED <<now, calls, last, cache, queues, store>>

(***************************************************************************)
(* Time: the clock advances.  A key whose TTL has run out is no longer seen *)
(* by GET (CacheGet compares its expiry time with the clock).              *)
(***************************************************************************)
Tick ==
    /\ now < MaxTicks * TickSeconds
    /\ now' = now + TickSeconds
    /\ published' = << >>
    /\ UNCHANGED <<calls, last, cache, queues, deliveryVars>>

(***************************************************************************)
(* Specifications                                                          *)
(***************************************************************************)
Init ==
    /\ now = 0
    /\ calls = [r \in Requests |-> NewCall]
    /\ last = NewCall
    /\ cache = << >>
    /\ queues = [q \in QueueNames |-> << >>]
    /\ published = << >>
    /\ consumers = [c \in Channels |-> IdleConsumer]
    /\ store = EmptyBag
    /\ hist = [m \in MessageIds |-> NoHistory]

Route ==
    \/ \E r \in Requests, redisOk \in BOOLEAN : checkDuplicateSet(r, redisOk)
    \/ \E r \in Requests, sent \in BOOLEAN, kafkaOk \in BOOLEAN : routeMessage(r, sent, kafkaOk)

\* what simulateDelivery and the two upserts of one handler invocation can
\* do: <<sendOk, storeOk1, storeOk2>>, without the outcomes of calls that
\* the invocation does not make
HandlerRuns ==
    { <<TRUE, TRUE, TRUE>>, <<TRUE, FALSE, TRUE>>, <<TRUE, FALSE, FALSE>>,
      <<FALSE, TRUE, TRUE>>, <<FALSE, TRUE, FALSE>> }

Deliver ==
    \/ \E c \in Channels, k1 \in BOOLEAN : processMessage(c, k1)
    \/ \E c \in Channels, run \in HandlerRuns, k1 \in BOOLEAN, k2 \in BOOLEAN :
           deliverWithRetry(c, run[1], run[2], run[3], k1, k2)
    \/ \E c \in Channels : retryAfterBackoff(c)

\* the task router service alone, over all the inputs
NextRouter ==
    \/ \E r \in Requests, input \in Inputs, redisOk \in BOOLEAN : sendMessage(r, input, redisOk)
    \/ Route
    \/ Tick

SpecRouter == Init /\ [][NextRouter]_vars

\* inputs whose recipient or body holds the separator of the pre-hash string
SeparatorInputs ==
    { MkInput("email", <<"a", "@", "b", ".", "c", ":", "x">>, <<"H", "i">>, <<"y">>),
      MkInput("email", <<"a", "@", "b", ".", "c">>, <<"H", "i">>, <<"x", ":", "y">>),
      MkInput("email", <<"a", "@", "b", ".", "c">>, <<"H", "i">>, <<"y">>),
      MkInput("sms", <<"1", "2">>, <<>>, <<"x", ":", "y">>) }

\* the task router service over these inputs, the clock standing still
NextSeparator ==
    \/ \E r \in Requests, input \in SeparatorInputs, redisOk \in BOOLEAN :
          sendMessage(r, input, redisOk)
    \/ Route

SpecSeparator == Init /\ [][NextSeparator]_vars

\* routeMessage is exported: the values that the channel of its argument
\* can have when it is called directly, not through the GraphQL enum
\* ("push" stands for the strings that are no key of QUEUES)
AnyChannel == Channels \cup {"dlq", "push"}

\* every request is a call of routeMessage about to run
InitRouteMessage ==
    /\ now = 0
    /\ \E ch \in [Requests -> AnyChannel] :
          calls = [r \in Requests |->
                     [NewCall EXCEPT !.pc = "route", !.id = r, !.traceId = TraceIdOf(r),
                                     !.input = MkInput(ch[r], <<"1", "2">>, <<"H", "i">>, <<"x">>)]]
    /\ last = NewCall
    /\ cache = << >>
    /\ queues = [q \in QueueNames |-> << >>]
    /\ published = << >>
    /\ consumers = [c \in Channels |-> IdleConsumer]
    /\ store = EmptyBag
    /\ hist = [m \in MessageIds |-> NoHistory]

NextRouteMessage ==
    \E r \in Requests, sent \in BOOLEAN, kafkaOk \in BOOLEAN : routeMessage(r, sent, kafkaOk)

SpecRouteMessage == InitRouteMessage /\ [][NextRouteMessage]_vars

\* the delivery service alone: the queues hold what the router has put
\* there for MaxMessages accepted requests
RECURSIVE Enqueue(_, _, _)
Enqueue(qs, r, choice) ==
    IF r > MaxMessages THEN qs
    ELSE Enqueue([qs EXCEPT ![QueueFor(choice[r].channel)] =
                      Append(@, BrokerMessage(RoutedMessage(MessageIdOf(r), TraceIdOf(r),
                                                            choice[r], 0)))],
                 r + 1, choice)

InitDelivery ==
    /\ now = 0
    /\ calls = [r \in Requests |-> DoneCall]
    /\ last = NewCall
    /\ cache = << >>
    /\ \E choice \in [1..MaxMessages -> {i \in Inputs : Valid(i)}] :
          queues = Enqueue([q \in QueueNames |-> << >>], 1, choice)
    /\ published = << >>
    /\ consumers = [c \in Channels |-> IdleConsumer]
    /\ store = EmptyBag
    /\ hist = [m \in MessageIds |-> NoHistory]

SpecDelivery == InitDelivery /\ [][Deliver]_vars

\* both services on one broker: the first MaxMessages calls of sendMessage
\* are made, and the consumers deliver what routeMessage has enqueued
InitPipeline ==
    /\ now = 0
    /\ calls = [r \in Requests |-> IF r <= MaxMessages THEN NewCall ELSE DoneCall]
    /\ last = NewCall
    /\ cache = << >>
    /\ queues = [q \in QueueNames |-> << >>]
    /\ published = << >>
    /\ consumers = [c \in Channels |-> IdleConsumer]
    /\ store = EmptyBag
    /\ hist = [m \in MessageIds |-> NoHistory]

NextPipeline ==
    \/ \E r \in Requests, input \in Inputs, redisOk \in BOOLEAN : sendMessage(r, input, redisOk)
    \/ Route
    \/ Deliver
    \/ Tick

SpecPipeline == InitPipeline /\ [][NextPipeline]_vars

\* a broker message whose content JSON.parse (80) rejects; it does not come
\* from the router, whose bodies are JSON.stringify of an object
MalformedPayload ==
    [content |-> [json |-> FALSE, text |-> << >>],
     headers |-> [retryCount |-> 0, traceId |-> Undefined, subtraceId |-> Undefined]]

\* the delivery service with, besides the routed messages, one malformed
\* payload at the head or at the tail of one of the consumed queues
InitMalformed ==
    /\ now = 0
    /\ calls = [r \in Requests |-> DoneCall]
    /\ last = NewCall
    /\ cache = << >>
    /\ \E choice \in [1..MaxMessages -> {i \in Inputs : Valid(i)}] :
       \E c \in Channels : \E atHead \in BOOLEAN :
          LET qs == Enqueue([q \in QueueNames |-> << >>], 1, choice)
          IN  queues = [qs EXCEPT ![QUEUES[c]] =
                           IF atHead THEN <<MalformedPayload>> \o @
                                     ELSE Append(@, MalformedPayload)]
    /\ published = << >>
    /\ consumers = [c \in Channels |-> IdleConsumer]
    /\ store = EmptyBag
    /\ hist = [m \in MessageIds |-> NoHistory]

SpecMalformed == InitMalformed /\ [][Deliver]_vars

\* the order of the keys of QUEUES and HANDLERS
ChannelIndex == [email |-> 1, sms |-> 2, whatsapp |-> 3]

\* the delivery service with one routed message on each of two different
\* channel queues (the message of the earlier channel is the first routed)
InitTwoQueues ==
    /\ now = 0
    /\ calls = [r \in Requests |-> DoneCall]
    /\ last = NewCall
    /\ cache = << >>
    /\ \E i1 \in {i \in Inputs : Valid(i)} :
       \E i2 \in {i \in Inputs : Valid(i) /\ ChannelIndex[i1.channel] < ChannelIndex[i.channel]} :
          queues = [q \in QueueNames |->
                      IF q = QueueFor(i1.channel)
                        THEN <<BrokerMessage(RoutedMessage(MessageIdOf(1), TraceIdOf(1), i1, 0))>>
                      ELSE IF q = QueueFor(i2.channel)
                        THEN <<BrokerMessage(RoutedMessage(MessageIdOf(2), TraceIdOf(2), i2, 0))>>
                      ELSE << >>]
    /\ published = << >>
    /\ consumers = [c \in Channels |-> IdleConsumer]
    /\ store = EmptyBag
    /\ hist = [m \in MessageIds |-> NoHistory]

SpecTwoQueues == InitTwoQueues /\ [][Deliver]_vars

\* the consumers are scheduled fairly: a message that can be received is
\* received, a handler invocation returns, a backoff timer fires
Fairness ==
    \A c \in Channels :
        /\ WF_vars(\E k1 \in BOOLEAN : processMessage(c, k1))
        /\ WF_vars(\E run \in HandlerRuns, k1 \in BOOLEAN, k2 \in BOOLEAN :
                      deliverWithRetry(c, run[1], run[2], run[3], k1, k2))
        /\ WF_vars(retryAfterBackoff(c))

FairDelivery == SpecDelivery /\ Fairness

(***************************************************************************)
(* Properties of the task router service (checked under SpecRouter)        *)
(***************************************************************************)
Returned == last.pc = "done"

\* the broker messages of a queue that carry messageId
Holding(queueName, messageId) ==
    {i \in 1..Len(queues[queueName]) :
        Parses(queues[queueName][i].content)
        /\ Parse(queues[queueName][i].content).messageId = messageId}

\* the number of broker messages, over all queues, that carry messageId
Enqueued(messageId) ==
    Cardinality({<<q, i>> \in QueueNames \X (1..(MaxRequests + 1)) :
                    i \in Holding(q, messageId)})

\* the conditions under which sendMessage must refuse an input, as the
\* contract lists them
Refused(input) ==
    \/ input.recipient = << >>
    \/ input.body = << >>
    \/ input.channel = "email" /\ input.subject = << >>
    \/ input.channel = "email" /\ ~isValidEmail(input.recipient)
    \/ input.channel \in {"sms", "whatsapp"} /\ ~isValidPhone(input.recipient)

ErrorOutcome(call) ==
    /\ call.result.success = FALSE
    /\ call.result.messageId = Null
    /\ call.result.message[1] = "Error: "

\* C1: a call with a valid input whose dedup key had no live reservation,
\* whose Redis commands succeeded and whose broker submission was accepted,
\* has put exactly one message on the queue of the input's channel (and on no
\* other queue) and returns success=true, a non-null messageId and its traceId.
C1_FreshValidInputIsEnqueuedOnce ==
    (/\ Returned
     /\ ~Refused(last.input)
     /\ ~last.reserved
     /\ ~last.cacheError
     /\ last.sent = "true")
    => /\ last.result.success = TRUE
       /\ last.result.messageId # Null
       /\ last.result.traceId = TraceIdOf(last.id)
       /\ last.result.message = <<"Message queued successfully">>
       /\ last.submissions = 1
       /\ last.queuedOn = <<QUEUES[last.input.channel]>>
       /\ Cardinality(Holding(QUEUES[last.input.channel], last.result.messageId)) = 1
       /\ Enqueued(last.result.messageId) = 1

C1_Witness ==
    /\ Returned
    /\ last.input.channel = "sms"
    /\ ~last.reserved
    /\ last.cacheWrote
    /\ last.result.success = TRUE
    /\ Len(queues[QUEUES.sms]) = 1

DuplicateOutcome(call) ==
    /\ call.queuedOn = << >>
    /\ call.submissions = 0
    /\ Enqueued(MessageIdOf(call.id)) = 0
    /\ ~call.cacheWrote
    /\ call.result.success = FALSE
    /\ call.result.messageId = Null
    /\ call.result.traceId = TraceIdOf(call.id)
    /\ call.result.message = <<"Duplicate message detected">>

\* C2 as stated: every call whose dedup key has an unexpired reservation
\* enqueues nothing, writes nothing to the cache and returns the duplicate
\* outcome.
C2_Original_EveryReservedInputIsDuplicate ==
    (Returned /\ last.reserved) => DuplicateOutcome(last)

\* C2, amended: a call with a valid input whose dedup key has an unexpired
\* reservation and whose Redis GET succeeds enqueues nothing, writes nothing
\* to the cache and returns success=false, messageId=null, its own fresh
\* traceId and "Duplicate message detected".
C2_ReservedValidInputIsDuplicate ==
    (Returned /\ last.reserved /\ ~Refused(last.input) /\ ~last.cacheError)
        => DuplicateOutcome(last)

C2_Witness ==
    /\ Returned
    /\ last.reserved
    /\ last.cacheHit
    /\ last.id = 2
    /\ last.result.message = <<"Duplicate message detected">>
    /\ Enqueued(1) = 1

\* C6 as stated: when the broker submission fails, the call returns an error
\* outcome, nothing is enqueued and the reservation that the call wrote is
\* gone from the cache.
C6_Original_RoutingFailureLeavesNoReservation ==
    (Returned /\ last.sent = "false" /\ last.cacheWrote)
        => /\ ErrorOutcome(last)
           /\ Enqueued(MessageIdOf(last.id)) = 0
           /\ ~LiveReservation(DedupKey(last.input))

\* C7: when the GET or the SETEX of checkDuplicate fails, a call with a valid
\* input is not reported as a duplicate: it goes on to routeMessage, makes
\* its one broker submission, and is enqueued and answered with success when
\* the broker accepts the submission.
C7_DedupFailsOpen ==
    (Returned /\ last.cacheError)
        => /\ ~Refused(last.input)
           /\ last.result.message # <<"Duplicate message detected">>
           /\ last.submissions = 1
           /\ last.sent = "true" =>
                 /\ last.result.success = TRUE
                 /\ last.queuedOn = <<QUEUES[last.input.channel]>>
                 /\ Enqueued(last.result.messageId) = 1

C7_Witness ==
    /\ Returned
    /\ last.cacheError
    /\ last.reserved
    /\ last.result.success = TRUE
    /\ Enqueued(last.result.messageId) = 1

\* C8: a call whose input fails validation returns an error outcome and has
\* no side effect: it issues no Redis command, makes no broker submission,
\* and leaves the cache and every queue as they were.
C8_InvalidInputHasNoSideEffects ==
    [][(last' # last /\ Refused(last'.input))
          => /\ ErrorOutcome(last')
             /\ ~last'.cacheRead /\ ~last'.cacheWrote /\ ~last'.cacheError
             /\ last'.submissions = 0
             /\ last'.queuedOn = << >>
             /\ cache' = cache
             /\ queues' = queues]_vars

C8_Witness ==
    /\ Returned
    /\ last.input.channel = "sms"
    /\ ~isValidPhone(last.input.recipient)
    /\ last.result.message = <<"Error: ", "Invalid phone number format">>
    /\ DOMAIN cache # {}

\* C14: a reservation lasts 24 hours (86400 s) and no longer.  A call with
\* a valid input whose dedup key has a reservation that has run out is not a
\* duplicate: it reads the cache and misses, writes a new reservation, which
\* runs out no earlier than 24 hours after the old one did, makes its one
\* broker submission, and is enqueued and answered with success when the
\* broker accepts the submission.
C14_ExpiredReservationIsNoDuplicate ==
    /\ \A k \in DOMAIN cache : cache[k] - now <= 24 * 3600
    /\ (Returned /\ last.expiredAt # Null /\ ~Refused(last.input) /\ ~last.cacheError)
          => /\ last.cacheRead
             /\ ~last.cacheHit
             /\ last.result.message # <<"Duplicate message detected">>
             /\ last.cacheWrote
             /\ cache[DedupKey(last.input)] >= last.expiredAt + 24 * 3600
             /\ last.submissions = 1
             /\ last.sent = "true" =>
                   /\ last.result.success = TRUE
                   /\ last.queuedOn = <<QUEUES[last.input.channel]>>
                   /\ Enqueued(last.result.messageId) = 1

\* the first call reserves at time 0; the second call, with the same input,
\* arrives 24 hours later, is enqueued and reserves for another 24 hours
C14_Witness ==
    /\ Returned
    /\ last.id = 2
    /\ last.expiredAt = 24 * 3600
    /\ now = 24 * 3600
    /\ last.result.success = TRUE
    /\ Enqueued(1) = 1
    /\ Enqueued(2) = 1
    /\ Len(queues[QUEUES[last.input.channel]]) = 2
    /\ LiveReservation(DedupKey(last.input))
    /\ cache[DedupKey(last.input)] = 48 * 3600

\* the mapping of the wire contract
FixedQueueOf(channel) ==
    CASE channel = "email" -> "email_queue"
      [] channel = "sms" -> "sms_queue"
      [] channel = "whatsapp" -> "whatsapp_queue"

\* C15: every message that the router has enqueued is on the queue that the
\* fixed mapping assigns to its channel and on no other queue, and the
\* router puts nothing on dead_letter_queue.
C15_MessagesAreOnTheQueueOfTheirChannel ==
    /\ \A q \in QueueNames : \A i \in 1..Len(queues[q]) :
          /\ Parses(queues[q][i].content)
          /\ q = FixedQueueOf(Parse(queues[q][i].content).channel)
          /\ Enqueued(Parse(queues[q][i].content).messageId) = 1
    /\ queues["dead_letter_queue"] = << >>
    /\ Returned =>
          \A i \in 1..Len(last.queuedOn) :
              last.queuedOn[i] = FixedQueueOf(last.input.channel)

C15_Witness ==
    /\ Returned
    /\ last.input.channel = "whatsapp"
    /\ last.queuedOn = <<"whatsapp_queue">>
    /\ Len(queues["whatsapp_queue"]) = 1
    /\ Len(queues["sms_queue"]) = 1
    /\ Len(queues["email_queue"]) = 0

(***************************************************************************)
(* Properties of the delivery service (checked under SpecDelivery and,     *)
(* for liveness, FairDelivery)                                             *)
(***************************************************************************)
Delivering == 1..MaxMessages

\* the number of Message documents with messageId
RecordCount(messageId) ==
    LET ds == DocsOf(store, messageId)
        RECURSIVE Sum(_)
        Sum(S) == IF S = {} THEN 0
                  ELSE LET d == CHOOSE x \in S : TRUE
                       IN  CopiesIn(d, store) + Sum(S \ {d})
    IN  Sum(ds)

InFlight(messageId) ==
    \E c \in Channels : consumers[c].pc # "idle"
                        /\ consumers[c].message.messageId = messageId

InOriginQueue(messageId) ==
    \E c \in Channels : Holding(QUEUES[c], messageId) # {}

\* C3 as stated: the delivery action is invoked at most maxRetries + 1 = 4
\* times for one messageId, in-process retries and redeliveries together.
C3_Original_AtMostFourAttempts ==
    \A m \in Delivering : hist[m].attempts <= MAX_RETRIES + 1

\* C4 as stated: the delivery service never issues a nack with requeue=true.
C4_Original_NeverRequeued ==
    \A m \in Delivering : ~hist[m].requeued

DeadLettered(messageId) ==
    /\ \E d \in DocsOf(store, messageId) : d.status = "failed"
    /\ Cardinality(Holding(QUEUES.dlq, messageId)) = 1
    /\ ~InOriginQueue(messageId)
    /\ ~InFlight(messageId)

\* C5 as stated: a message whose delivery action fails on every attempt (so
\* that it is never acknowledged) eventually has a Delivery Record with
\* status failed, exactly one copy in the dead-letter queue and no copy in
\* its origin queue.
C5_Original_AlwaysFailingIsDeadLettered ==
    \A m \in Delivering : <>(hist[m].acked \/ DeadLettered(m))

\* C9: the collection never holds two documents with the same messageId,
\* whatever attempts, retries and redeliveries have happened; and applying
\* the same terminal update a second time changes nothing.
C9_OneRecordPerMessageId ==
    /\ \A m \in MessageIds : RecordCount(m) <= 1
    /\ \A c \in Channels :
          consumers[c].pc = "attempt" =>
             LET message == consumers[c].message
                 ok == DeliveredUpdate(c, message)
                 ko == FailedUpdate(c, message, SimulatedFailure)
                 once(u) == findOneAndUpdate(store, message.messageId, u)
                 twice(u) == findOneAndUpdate(once(u), message.messageId, u)
             IN  /\ twice(ok) = once(ok)
                 /\ twice(ko) = once(ko)
                 /\ BagCardinality(once(ok)) <= BagCardinality(store) + 1

\* a redelivered message is written a second time and still has one record
C9_Witness ==
    \E m \in Delivering :
        /\ hist[m].requeued
        /\ hist[m].attempts >= 2
        /\ RecordCount(m) = 1
        /\ \E d \in DocsOf(store, m) :
              d.status = "delivered" /\ d.errorMessage = SimulatedFailure

\* C10 as stated: once the record of a messageId has status delivered or
\* failed, its status never changes.
C10_Original_TerminalStatusIsFinal ==
    [][\A m \in Delivering : \A d \in DocsOf(store, m) :
          d.status \in {"delivered", "failed"}
             => \A e \in DocsOf(store', m) : e.status = d.status]_vars

\* the number of broker messages of a queue whose content does not parse
Unparsable(qs, queueName) ==
    Cardinality({i \in 1..Len(qs[queueName]) : ~Parses(qs[queueName][i].content)})

\* the step in which the consumer of channel c handles a parse failure
\* (recognised by the error event that handleDeliveryError publishes)
ParseFailureStep(c) ==
    \E i \in 1..Len(published') :
        /\ published'[i].channel = c
        /\ published'[i].error = "Unexpected token"

\* C11 as stated: when a consumed payload fails to parse, processMessage
\* rejects it without requeue on that delivery: after the step the payload
\* is no longer in the queue it was consumed from (it cannot be redelivered)
\* and the dead-letter queue has received it.
C11_Original_MalformedIsRejectedWithoutRequeue ==
    [][\A c \in Channels :
          ParseFailureStep(c)
             => /\ Unparsable(queues', QUEUES[c]) = Unparsable(queues, QUEUES[c]) - 1
                /\ Unparsable(queues', QUEUES.dlq) = Unparsable(queues, QUEUES.dlq) + 1]_vars

(***************************************************************************)
(* Properties of the two services together (checked under SpecPipeline)    *)
(***************************************************************************)
\* the events appended to the topic by the last step
Events == {published[i] : i \in 1..Len(published)}

\* the sendMessage call that generated messageId
RequestOf(messageId) == CHOOSE r \in Requests : MessageIdOf(r) = messageId

\* C12: every event published for a request, by the router and by the
\* delivery service (start, success, failure and dead-letter events, over
\* retries and redeliveries), carries the traceId that sendMessage generated
\* for that request and returned to the caller.
C12_EveryEventCarriesTheTraceId ==
    /\ \A e \in Events :
          /\ e.messageId \in MessageIds
          /\ e.traceId = TraceIdOf(RequestOf(e.messageId))
    /\ (Returned /\ last.result.success)
          => last.result.traceId = TraceIdOf(RequestOf(last.result.messageId))

\* the failure event of a redelivered message carries the traceId that was
\* returned to the caller
C12_Witness ==
    /\ Returned
    /\ last.result.success
    /\ \E e \in Events :
          /\ e.service = "delivery"
          /\ e.message = "Message delivery failed"
          /\ e.messageId = last.result.messageId
          /\ e.traceId = last.result.traceId
          /\ hist[e.messageId].requeued
          /\ hist[e.messageId].attempts >= 2

\* the message body that the consumer of channel c works on in this step
BodyOf(c) ==
    IF consumers[c].pc # "idle" THEN consumers[c].message ELSE consumers'[c].message

\* C13 as stated: the subtraceId of every delivery event of a request
\* differs from the subtraceId of the router's enqueue event (the one that
\* routeMessage put in the body), and every delivery attempt, an in-process
\* retry included, gets a fresh subtraceId.
C13_Original_FreshSubtraceIdPerHop ==
    [][/\ \A i \in 1..Len(published') :
             published'[i].service = "delivery"
                => published'[i].subtraceId # BodyOf(published'[i].channel).subtraceId
       /\ \A c \in Channels :
             (consumers[c].pc = "backoff" /\ consumers'[c].pc = "attempt")
                => consumers'[c].subtraceId # consumers[c].subtraceId]_vars

(***************************************************************************)
(* Retry counters (checked under SpecDelivery)                             *)
(***************************************************************************)
\* the bodies of the messages waiting in the queue of channel c
QueuedBodies(c) ==
    {Parse(queues[QUEUES[c]][i].content) :
        i \in {j \in 1..Len(queues[QUEUES[c]]) : Parses(queues[QUEUES[c]][j].content)}}

\* C16: the retryCount of a message that has not been dead-lettered is
\* between 0 and its maxRetries, which is 3, in the copy that waits in a
\* queue and in the copy that a consumer works on.
C16_RetryCountWithinMaxRetries ==
    \A c \in Channels :
        /\ \A body \in QueuedBodies(c) :
              /\ body.maxRetries = 3
              /\ 0 <= body.retryCount
              /\ body.retryCount <= body.maxRetries
        /\ consumers[c].pc # "idle" =>
              /\ consumers[c].message.maxRetries = 3
              /\ consumers[c].maxRetries = 3
              /\ 0 <= consumers[c].message.retryCount
              /\ consumers[c].message.retryCount <= consumers[c].message.maxRetries
              /\ 0 <= consumers[c].retryCount
              /\ consumers[c].retryCount <= consumers[c].maxRetries

\* the last in-process retry: the count has reached maxRetries
C16_Witness ==
    \E c \in Channels :
        /\ consumers[c].pc = "attempt"
        /\ consumers[c].message.retryCount = 3
        /\ consumers[c].retryCount = 3
        /\ hist[consumers[c].message.messageId].attempts >= 3

\* C17 as stated: the retryCount that the delivery service works with for a
\* messageId never decreases, broker redeliveries included.
C17_Original_RetryCountNeverDecreases ==
    [][\A m \in Delivering : hist'[m].retryCount >= hist[m].retryCount]_vars

(***************************************************************************)
(* Status of a message (checked under SpecPipeline)                        *)
(***************************************************************************)
\* the status of messageId: that of its Message document once there is one,
\* before that the status field of its body (in a consumer or in a queue)
StatusIn(docs, cons, qs, messageId) ==
    LET records == DocsOf(docs, messageId)
        working == {c \in Channels : cons[c].pc # "idle"
                                     /\ cons[c].message.messageId = messageId}
        waiting == {<<q, i>> \in QueueNames \X (1..(MaxRequests + 1)) :
                       /\ i <= Len(qs[q])
                       /\ Parses(qs[q][i].content)
                       /\ Parse(qs[q][i].content).messageId = messageId}
    IN  IF records # {} THEN (CHOOSE d \in records : TRUE).status
        ELSE IF working # {} THEN cons[CHOOSE c \in working : TRUE].message.status
        ELSE IF waiting # {}
          THEN LET w == CHOOSE w \in waiting : TRUE
               IN  Parse(qs[w[1]][w[2]].content).status
        ELSE "none"

\* C18 as stated: the status of a valid email request whose delivery action
\* succeeds on the first attempt passes through queued, processing and
\* delivered in that order: it is queued while the message waits, and it
\* becomes delivered from processing.
C18_Original_QueuedProcessingDelivered ==
    [][\A m \in Delivering :
          \A c \in {"email"} :
             (/\ consumers[c].pc = "attempt"
              /\ consumers[c].message.messageId = m
              /\ hist[m].attempts = 0
              /\ hist'[m].attempts = 1
              /\ StatusIn(store', consumers', queues', m) = "delivered")
                => StatusIn(store, consumers, queues, m) = "processing"]_vars

(***************************************************************************)
(* Log publishing and business outcomes (checked under SpecPipeline)       *)
(***************************************************************************)
\* C19: whether the sendLog calls of a step succeed or fail, the business
\* outcome of the step is the one that the broker's answer and the delivery
\* action's result decide.  routeMessage: the message is enqueued and the
\* caller gets success exactly when the broker accepts the submission.
\* processMessage: the run starts on the message at the head of the queue.
\* End of a run: the message is acknowledged exactly when its Delivery Record
\* has been written as delivered; otherwise it is dead-lettered when its
\* retryCount has reached maxRetries and requeued when not.
C19_LogFailureChangesNoOutcome ==
    [][/\ \A r \in Requests :
             (calls[r].pc = "route" /\ calls'[r].pc = "done")
                => LET q == QUEUES[calls[r].input.channel]
                   IN  /\ last'.id = r
                       /\ last'.result.traceId = calls[r].traceId
                       /\ IF last'.sent = "true"
                            THEN /\ Len(queues'[q]) = Len(queues[q]) + 1
                                 /\ last'.result.success = TRUE
                                 /\ last'.result.messageId = MessageIdOf(r)
                            ELSE /\ queues' = queues
                                 /\ ErrorOutcome(last')
       /\ \A c \in Channels :
             (consumers[c].pc = "idle" /\ consumers'[c].pc # "idle")
                => /\ consumers'[c].pc = "attempt"
                   /\ consumers'[c].msg = Head(queues[QUEUES[c]])
                   /\ queues'[QUEUES[c]] = Tail(queues[QUEUES[c]])
       /\ \A c \in Channels :
             (consumers[c].pc = "attempt" /\ consumers'[c].pc = "idle")
                => LET m == consumers[c].message.messageId
                       msg == consumers[c].msg
                       q == QUEUES[c]
                   IN  IF \E d \in DocsOf(store', m) : d.status = "delivered"
                         THEN /\ hist'[m].acked
                              /\ queues' = queues
                       ELSE IF consumers[c].message.retryCount
                                  >= consumers[c].message.maxRetries
                         THEN /\ ~hist'[m].acked
                              /\ queues'[q] = queues[q]
                              /\ queues'["dead_letter_queue"]
                                    = Append(queues["dead_letter_queue"], msg)
                         ELSE /\ ~hist'[m].acked
                              /\ queues'[q] = <<msg>> \o queues[q]
                              /\ queues'["dead_letter_queue"] = queues["dead_letter_queue"]]_vars

\* the call was answered with success and the message was acknowledged with
\* its record delivered, in steps that published nothing: no clock step was
\* taken, so the last step is the acknowledging one and its sendLog failed
C19_Witness ==
    /\ now = 0
    /\ published = << >>
    /\ Returned
    /\ last.result.success = TRUE
    /\ hist[last.result.messageId].acked
    /\ hist[last.result.messageId].requeued
    /\ \E d \in DocsOf(store, last.result.messageId) : d.status = "delivered"
    /\ \A q \in QueueNames : queues[q] = << >>

(***************************************************************************)
(* Acknowledgment (checked under SpecDelivery)                             *)
(***************************************************************************)
\* the step acknowledges messageId
AckStep(messageId) == ~hist[messageId].acked /\ hist'[messageId].acked

\* e is the success event of messageId
SuccessEvent(e, messageId) ==
    /\ e.service = "delivery"
    /\ e.level = "info"
    /\ e.message = "Message delivered successfully"
    /\ e.messageId = messageId
    /\ e.traceId = TraceIdOf(RequestOf(messageId))

\* the delivery action has run in this step and has written the record of
\* messageId as delivered; the message is with no consumer and in no queue
AckedAsDelivered(messageId) ==
    /\ hist'[messageId].attempts = Bump(hist[messageId].attempts)
    /\ \E c \in Channels :
          /\ consumers[c].pc = "attempt"
          /\ consumers[c].message.messageId = messageId
          /\ consumers'[c].pc = "idle"
    /\ DocsOf(store', messageId) # {}
    /\ \A d \in DocsOf(store', messageId) : d.status = "delivered"
    /\ queues' = queues
    /\ Enqueued(messageId) = 0

\* C20 as stated: whenever a message is acknowledged, the delivery action
\* returned success for it in that processing run, its Delivery Record has
\* status delivered at the ack, and a success event for it is published
\* after the ack.
C20_Original_AckPublishesSuccessEvent ==
    [][\A m \in Delivering :
          AckStep(m) => /\ AckedAsDelivered(m)
                        /\ Len(published') = 1
                        /\ SuccessEvent(published'[1], m)]_vars

\* C20, amended: whenever a message is acknowledged, the delivery action
\* returned success for it in that processing run and its Delivery Record
\* has status delivered at the ack; the success event is sent after the ack
\* and is the one event that the step publishes, unless that sendLog call
\* fails, in which case the step publishes nothing.
C20_AckImpliesDeliveredRecord ==
    [][\A m \in Delivering :
          AckStep(m) => /\ AckedAsDelivered(m)
                        /\ \/ published' = << >>
                           \/ /\ Len(published') = 1
                              /\ SuccessEvent(published'[1], m)]_vars

\* a message acknowledged on its first delivery, with its success event
C20_Witness ==
    \E m \in Delivering :
        /\ hist[m].acked
        /\ ~hist[m].requeued
        /\ hist[m].attempts = 1
        /\ \E d \in DocsOf(store, m) : d.status = "delivered"
        /\ Len(published) = 1
        /\ SuccessEvent(published[1], m)
        /\ Enqueued(m) = 0

(***************************************************************************)
(* Exhausted retries (checked under SpecDelivery)                          *)
(***************************************************************************)
\* the step rejects messageId without requeue: the broker dead-letters it
RejectStep(messageId) ==
    /\ Len(queues'[QUEUES.dlq]) = Len(queues[QUEUES.dlq]) + 1
    /\ \E c \in Channels :
          /\ consumers[c].pc = "attempt"
          /\ consumers[c].message.messageId = messageId
          /\ consumers'[c].pc = "idle"

\* C21 as stated: whenever a message is rejected without requeue because
\* its retries are used up, its Delivery Record exists with status failed
\* and with the error message of the last failed attempt (the one that the
\* failure event of the step reports).
C21_Original_RejectedHasFailedRecord ==
    [][\A m \in Delivering :
          RejectStep(m)
             => /\ DocsOf(store', m) # {}
                /\ \A d \in DocsOf(store', m) :
                      /\ d.status = "failed"
                      /\ \A i \in 1..Len(published') :
                            published'[i].message = "Message delivery failed"
                               => d.errorMessage = published'[i].error]_vars

(***************************************************************************)
(* Failure events (checked under SpecDelivery)                             *)
(***************************************************************************)
\* the step in which an invocation of the delivery action by the consumer
\* of channel c fails
FailedAttemptStep(c) ==
    /\ consumers[c].pc = "attempt"
    /\ consumers'[c].pc # "attempt"
    /\ ~hist'[consumers[c].message.messageId].acked

\* the error events of the step that report the failed attempt of c: its
\* retryCount and the failure reason
FailureEvents(c) ==
    {i \in 1..Len(published') :
        /\ published'[i].level = "error"
        /\ published'[i].messageId = consumers[c].message.messageId
        /\ published'[i].retryCount = consumers[c].retryCount
        /\ published'[i].error # "undefined"}

\* C22 as stated: every failed attempt publishes one error event with the
\* retryCount of the attempt and the failure reason, an attempt that is
\* followed by an in-process retry included.  (An attempt that ends the
\* processing run is allowed to publish nothing, which is what happens when
\* its log call fails.)
C22_Original_EveryFailedAttemptIsReported ==
    [][\A c \in Channels :
          FailedAttemptStep(c)
             => IF consumers'[c].pc = "backoff"
                  THEN Cardinality(FailureEvents(c)) = 1
                  ELSE published' = << >> \/ Cardinality(FailureEvents(c)) = 1]_vars

(***************************************************************************)
(* Sequencing of the attempts (checked under SpecDelivery)                 *)
(***************************************************************************)
\* the consumers that hold messageId unacknowledged
HoldersOf(messageId) ==
    {c \in Channels : consumers[c].pc # "idle"
                      /\ consumers[c].message.messageId = messageId}

\* the consumers with an invocation of the delivery action for messageId
\* under way
Attempting(messageId) ==
    {c \in HoldersOf(messageId) : consumers[c].pc = "attempt"}

\* an invocation of the delivery action for messageId returns or throws
AttemptEnds(messageId) == hist'[messageId].attempts # hist[messageId].attempts

\* C23: the attempts for one messageId never overlap.  At most one consumer
\* holds the message, and while it is held (an attempt under way or its
\* backoff running) no copy of it is in a channel queue, where a redelivery
\* could start from; and an attempt that ends is the one under way, after
\* which none is under way until the retry or the redelivery starts.
C23_AttemptsNeverOverlap ==
    /\ [](\A m \in Delivering :
             /\ Cardinality(HoldersOf(m)) <= 1
             /\ HoldersOf(m) # {} => ~InOriginQueue(m))
    /\ [][\A m \in Delivering :
             AttemptEnds(m)
                => /\ Cardinality(Attempting(m)) = 1
                   /\ \A c \in Channels :
                         ~(consumers'[c].pc = "attempt"
                           /\ consumers'[c].message.messageId = m)]_vars

\* a message that was redelivered and retried in process is under its
\* third attempt or a later one
C23_Witness ==
    \E m \in Delivering :
        /\ hist[m].requeued
        /\ hist[m].attempts >= 2
        /\ \E c \in Attempting(m) : consumers[c].retryCount >= 1

(***************************************************************************)
(* One message in flight per consumer (checked under SpecMalformed, where  *)
(* a queue can hold a second message behind the one in flight)             *)
(***************************************************************************)
\* the consumer of channel c settles the message it holds: ack, nack with
\* requeue, or nack without
SettledBy(c) ==
    LET msg == consumers[c].msg
        m == consumers[c].message.messageId
    IN  \/ hist'[m].acked /\ queues' = queues
        \/ queues' = Nack(queues, QUEUES[c], msg, TRUE)
        \/ queues' = Nack(queues, QUEUES[c], msg, FALSE)

\* C24: a consumer is handed a message only when it holds none, and the one
\* it holds stays the one in flight, through attempts and backoff, until the
\* consumer acks or nacks it.
C24_OneUnackedMessagePerConsumer ==
    [][\A c \in Channels :
          /\ Len(queues'[QUEUES[c]]) < Len(queues[QUEUES[c]]) => consumers[c].pc = "idle"
          /\ consumers[c].pc # "idle"
                => IF consumers'[c].pc = "idle"
                     THEN SettledBy(c)
                     ELSE consumers'[c].msg = consumers[c].msg]_vars

\* a consumer waits in backoff while its queue holds a further message
C24_Witness ==
    \E c \in Channels :
        /\ consumers[c].pc = "backoff"
        /\ queues[QUEUES[c]] # << >>

(***************************************************************************)
(* Independence of the consumers (checked under SpecTwoQueues)             *)
(***************************************************************************)
Receives(c) == \E k1 \in BOOLEAN : processMessage(c, k1)

DeliversAndAcks(c) ==
    /\ \E run \in HandlerRuns, k1 \in BOOLEAN, k2 \in BOOLEAN :
          deliverWithRetry(c, run[1], run[2], run[3], k1, k2)
    /\ hist'[consumers[c].message.messageId].acked

\* C25: while a consumer waits in retry backoff, every other consumer can
\* take the message at the head of its own queue and, once it holds one, can
\* deliver and acknowledge it.
C25_BackoffBlocksNoOtherQueue ==
    \A c \in Channels, c2 \in Channels :
        (c # c2 /\ consumers[c].pc = "backoff")
           => /\ (consumers[c2].pc = "idle" /\ queues[QUEUES[c2]] # << >>)
                    => ENABLED Receives(c2)
              /\ consumers[c2].pc = "attempt" => ENABLED DeliversAndAcks(c2)

\* a consumer waits in its first backoff of a message's first processing
\* run while another consumer holds a message of its own queue
C25_Witness ==
    \E c \in Channels, c2 \in Channels :
        /\ c # c2
        /\ consumers[c].pc = "backoff"
        /\ consumers[c2].pc = "attempt"
        /\ hist[consumers[c].message.messageId].attempts = 1

(***************************************************************************)
(* The dedup check is a read followed by a write (checked under SpecRouter) *)
(***************************************************************************)
\* the message objects on the queues
QueuedMessages ==
    {Parse(queues[q][i].content) :
        <<q, i>> \in {qi \in QueueNames \X (1..(MaxRequests + 1)) :
                        qi[2] <= Len(queues[qi[1]]) /\ Parses(queues[qi[1]][qi[2]].content)}}

SameTriple(message, input) ==
    /\ message.channel = input.channel
    /\ message.recipient = input.recipient
    /\ message.body = input.body

\* call r arrives: it validates its input and reads its dedup key
Arrives(r) == calls[r].pc = "new" /\ calls'[r].pc # "new"

\* the record of call r after the step
RecordAfter(r) == IF calls'[r].pc = "done" THEN last' ELSE calls'[r]

\* C26, for calls that do not overlap: a call that arrives after a call with
\* the same (channel, recipient, body) has written the key and has been
\* enqueued, with the cache working and before any reservation can have run
\* out, submits nothing and returns; its outcome is the duplicate outcome
\* when its input is valid.  (That two overlapping calls are both enqueued is
\* the state of C26_Witness.)
C26_NonOverlappingDuplicateIsRefused ==
    [][\A r \in Requests :
          (/\ Arrives(r)
           /\ ~RecordAfter(r).cacheError
           /\ now < DEDUP_TTL_SECONDS
           /\ \E message \in QueuedMessages :
                 /\ hist[message.messageId].deduped
                 /\ SameTriple(message, RecordAfter(r).input))
          => /\ calls'[r].pc = "done"
             /\ last'.submissions = 0
             /\ Enqueued(MessageIdOf(r)) = 0
             /\ Valid(last'.input) => last'.result = DuplicateResult(TraceIdOf(r))]_vars

\* two calls with the same (channel, recipient, body) have both read the key
\* as absent and written it, no Redis command failing and no time passing,
\* and both are enqueued, with different messageIds
C26_Witness ==
    /\ now = 0
    /\ \E m1 \in QueuedMessages, m2 \in QueuedMessages :
          /\ m1.messageId # m2.messageId
          /\ hist[m1.messageId].deduped
          /\ hist[m2.messageId].deduped
          /\ m1.channel = m2.channel
          /\ m1.recipient = m2.recipient
          /\ m1.body = m2.body

(***************************************************************************)
(* The backoff schedule (checked under SpecDelivery)                       *)
(***************************************************************************)
\* the schedule as the contract gives it, in milliseconds
ScheduledWait(retryCount) ==
    CASE retryCount = 0 -> 1000
      [] retryCount = 1 -> 2000
      [] retryCount = 2 -> 4000
      [] OTHER -> 4000

\* C27: the wait computed for a failed attempt is that of the schedule for
\* its retryCount, for every retryCount (those of 3 and more included); a
\* consumer in backoff waits the time computed for the retryCount of the
\* attempt that failed; and the waits of a processing run, in the order in
\* which they were started, are a prefix of 1 s, 2 s, 4 s.
C27_BackoffFollowsTheSchedule ==
    /\ \A n \in 0..(MAX_RETRIES + MaxCount) : DelayFor(n) = ScheduledWait(n)
    /\ \A c \in Channels :
          /\ consumers[c].waits = SubSeq(<<1000, 2000, 4000>>, 1, Len(consumers[c].waits))
          /\ consumers[c].pc = "backoff"
                => /\ consumers[c].delay = ScheduledWait(consumers[c].retryCount)
                   /\ Len(consumers[c].waits) = consumers[c].retryCount + 1
                   /\ consumers[c].waits[Len(consumers[c].waits)] = consumers[c].delay
          /\ consumers[c].pc = "attempt"
                => Len(consumers[c].waits) = consumers[c].retryCount

\* a processing run is in its third backoff: it has waited 1 s and 2 s and
\* waits 4 s
C27_Witness ==
    \E c \in Channels :
        /\ consumers[c].pc = "backoff"
        /\ consumers[c].waits = <<1000, 2000, 4000>>
        /\ consumers[c].delay = 4000

(***************************************************************************)
(* The fields of an event (checked under SpecMalformed)                    *)
(***************************************************************************)
\* C28 as stated: every event published to the topic carries a defined
\* service, level, message, traceId and timestamp, the events published for
\* a payload that failed to parse included.
C28_Original_EveryEventHasTheMandatoryFields ==
    \A e \in Events :
        /\ e.service \in {"router", "delivery"}
        /\ e.level \in {"info", "error"}
        /\ e.message # "undefined"
        /\ e.traceId # Undefined
        /\ e.timestamp # Undefined

(***************************************************************************)
(* The events of routeMessage (checked under SpecRouter)                   *)
(***************************************************************************)
\* the step in which the routeMessage call of request r runs and returns
RouteStep(r) == calls[r].pc = "route" /\ calls'[r].pc = "done"

\* the step has put one more message on the queue of the call's channel
Submitted(r) ==
    LET q == QUEUES[calls[r].input.channel]
    IN  /\ Len(queues'[q]) = Len(queues[q]) + 1
        /\ \A q2 \in QueueNames \ {q} : queues'[q2] = queues[q2]

\* e is the event of the routeMessage call of request r that fits the
\* outcome of the call
RouteEventFits(e, r) ==
    /\ e.service = "router"
    /\ e.traceId = calls[r].traceId
    /\ e.messageId = MessageIdOf(r)
    /\ (e.level = "info" /\ e.message = "Message routed to queue") <=> Submitted(r)
    /\ e.level = "error" <=> ErrorOutcome(last')
    /\ e.level \in {"info", "error"}

\* C29 as stated: each call of routeMessage publishes exactly one router
\* event, the info event if and only if the message was submitted and an
\* error event if and only if the call throws, and submits once at most.
C29_Original_ExactlyOneRouterEvent ==
    [][\A r \in Requests :
          RouteStep(r)
             => /\ Len(published') = 1
                /\ RouteEventFits(published'[1], r)
                /\ last'.submissions = 1]_vars

\* C29, amended: each call of routeMessage makes one submission and
\* publishes at most one event; the event it publishes is the info event if
\* and only if the message was submitted, and an error event if and only if
\* the call throws (the caller then returns the error outcome); a call
\* either submits the message or throws.
C29_AtMostOneRouterEvent ==
    [][\A r \in Requests :
          RouteStep(r)
             => /\ Len(published') <= 1
                /\ \A i \in 1..Len(published') : RouteEventFits(published'[i], r)
                /\ last'.submissions = 1
                /\ Submitted(r) \/ queues' = queues
                /\ Submitted(r) <=> ~ErrorOutcome(last')]_vars

\* a call whose submission was refused has returned, and its error event
\* is the one event published
C29_Witness ==
    /\ Returned
    /\ last.sent = "false"
    /\ ErrorOutcome(last)
    /\ Len(published) = 1
    /\ published[1].level = "error"
    /\ published[1].traceId = last.traceId

(***************************************************************************)
(* The channel of a message (checked under SpecPipeline)                   *)
(***************************************************************************)
\* C30: the message that routeMessage enqueues carries the channel of the
\* request; the consumer that receives it, and so the delivery action that
\* is invoked, is the one of the message's channel field; the record that
\* the delivery action writes carries that channel; and the channel of a
\* record never changes.
C30_ChannelIsKeptFromRoutingToRecord ==
    [][/\ \A r \in Requests :
             (RouteStep(r) /\ last'.sent = "true")
                => LET q == queues'[QUEUES[calls[r].input.channel]]
                   IN  /\ Submitted(r)
                       /\ Parse(q[Len(q)].content).messageId = MessageIdOf(r)
                       /\ Parse(q[Len(q)].content).channel = calls[r].input.channel
       /\ \A c \in Channels :
             (consumers[c].pc = "idle" /\ consumers'[c].pc = "attempt")
                => consumers'[c].message.channel = c
       /\ \A c \in Channels :
             (consumers[c].pc = "attempt" /\ consumers'[c].pc # "attempt" /\ store' # store)
                => /\ DocsOf(store', consumers[c].message.messageId) # {}
                   /\ \A d \in DocsOf(store', consumers[c].message.messageId) :
                         d.channel = consumers[c].message.channel
       /\ \A m \in Delivering :
             \A d1 \in DocsOf(store, m), d2 \in DocsOf(store', m) :
                 d2.channel = d1.channel]_vars

\* an sms message was routed and its delivery failed: it is back on the sms
\* queue and its record, with status failed, carries the channel sms
C30_Witness ==
    \E m \in Delivering :
        /\ \E i \in Holding(QUEUES.sms, m) :
              Parse(queues[QUEUES.sms][i].content).channel = "sms"
        /\ \E d \in DocsOf(store, m) : d.channel = "sms" /\ d.status = "failed"

(***************************************************************************)
(* Settling of the broker message (checked under SpecMalformed)            *)
(***************************************************************************)
\* the consumer of channel c ends the processing run of the message it holds
RunEnds(c) == consumers[c].pc # "idle" /\ consumers'[c].pc = "idle"

\* the consumer of channel c goes on with the processing run it is in
RunGoesOn(c) ==
    /\ consumers[c].pc # "idle"
    /\ consumers'[c].pc # "idle"
    /\ consumers'[c] # consumers[c]

\* C31: a processing run ends with exactly one of ack (the broker forgets the
\* message), nack with requeue (back at the head of its queue) and nack
\* without requeue (dead-lettered), for every outcome of the handler, the
\* upserts and the log calls; a run that goes on settles nothing; a payload
\* that fails to parse is nacked once in the step that receives it; and a
\* message that was acked is on no queue and with no consumer ever after.
C31_EveryRunSettlesItsMessageOnce ==
    /\ [](\A m \in Delivering :
             hist[m].acked => Enqueued(m) = 0 /\ HoldersOf(m) = {})
    /\ [][\A c \in Channels :
             LET msg == consumers[c].msg
                 m == consumers[c].message.messageId
                 head == Head(queues[QUEUES[c]])
                 unacked == [queues EXCEPT ![QUEUES[c]] = Tail(@)]
             IN  /\ RunEnds(c)
                      => IF hist'[m].acked
                           THEN queues' = queues
                           ELSE \/ queues' = Nack(queues, QUEUES[c], msg, TRUE)
                                \/ queues' = Nack(queues, QUEUES[c], msg, FALSE)
                 /\ RunGoesOn(c) => queues' = queues /\ ~hist'[m].acked
                 /\ ParseFailureStep(c)
                      => /\ consumers'[c].pc = "idle"
                         /\ \/ queues' = Nack(unacked, QUEUES[c], head, TRUE)
                            \/ queues' = Nack(unacked, QUEUES[c], head, FALSE)]_vars

\* a message was nacked with requeue in one run and acked in a later one
C31_Witness ==
    \E m \in Delivering :
        /\ hist[m].requeued
        /\ hist[m].acked
        /\ Enqueued(m) = 0

(***************************************************************************)
(* Sends to the recipient (checked under SpecDelivery)                     *)
(***************************************************************************)
\* the record of messageId shows a send that went through: the failure it
\* reports is that of the upsert which follows the send in the handler
SendSucceededBefore(messageId) ==
    \E d \in DocsOf(store, messageId) :
        d.status = "failed" /\ d.errorMessage = StoreFailure

\* C32 as stated: the send of the delivery action succeeds at most once per
\* messageId, also when the upsert after the send fails.  A message is acked
\* only in a run whose handler invocation sent it successfully, so a message
\* whose send has succeeded before is not acked by a later invocation.
C32_Original_SentAtMostOnce ==
    [][\A m \in Delivering : SendSucceededBefore(m) => ~AckStep(m)]_vars

(***************************************************************************)
(* Delivery after transient failures (checked under FairDelivery)          *)
(***************************************************************************)
\* no upsert has failed: no handler invocation has thrown (a consumer is in
\* backoff only after one has), and no record reports the failure of the
\* delivered-status upsert
StoreWorking ==
    /\ \A c \in Channels : consumers[c].pc # "backoff"
    /\ \A m \in Delivering : ~SendSucceededBefore(m)

\* some invocation of the delivery action fails in the step
SomeAttemptFails == \E c \in Channels : FailedAttemptStep(c)

DeliveredForGood(messageId) ==
    /\ hist[messageId].acked
    /\ DocsOf(store, messageId) # {}
    /\ \A d \in DocsOf(store, messageId) : d.status = "delivered"
    /\ Enqueued(messageId) = 0

C34_DeadLetteredOnlyAfterAllAttempts ==
    [][/\ Len(queues'[QUEUES.dlq]) > Len(queues[QUEUES.dlq])
             => \E c \in Channels : consumers'[c] # consumers[c]
       /\ \A c \in Channels :
          Len(queues'[QUEUES.dlq]) > Len(queues[QUEUES.dlq]) /\ consumers'[c] # consumers[c]
             => LET m == consumers[c].message.messageId
                IN  /\ consumers[c].pc = "attempt"
                    /\ queues'[QUEUES.dlq] = Append(queues[QUEUES.dlq], consumers[c].msg)
                    /\ ~hist'[m].acked
                    /\ hist[m].attempts < MaxCount
                          => hist'[m].attempts = hist[m].attempts + 1
                    /\ consumers[c].maxRetries = MAX_RETRIES
                    /\ Len(consumers[c].waits) + 1 = consumers[c].maxRetries + 1
                    /\ hist'[m].attempts >= consumers[c].maxRetries + 1]_vars

\* a message is in the dead-letter queue after one processing run of four
\* failed invocations
C34_Witness ==
    \E m \in Delivering :
        /\ Cardinality(Holding(QUEUES.dlq, m)) = 1
        /\ hist[m].attempts = MAX_RETRIES + 1
        /\ ~hist[m].requeued
        /\ ~hist[m].acked

(***************************************************************************)
(* The retry metadata of the queued bodies (checked under SpecPipeline)    *)
(***************************************************************************)
\* C35: every body on a channel queue, as enqueued by routeMessage or as put
\* back by a nack with requeue, has retryCount 0 and maxRetries 3 (and the
\* x-retry-count header 0), whatever count the in-process retries have
\* reached in the consumer's copy; and the copy a consumer starts a
\* processing run with has retryCount 0.
C35_QueuedBodiesKeepRetryCountZero ==
    /\ [](\A c \in Channels :
             /\ \A body \in QueuedBodies(c) :
                   body.retryCount = 0 /\ body.maxRetries = MAX_RETRIES
             /\ \A i \in 1..Len(queues[QUEUES[c]]) :
                   queues[QUEUES[c]][i].headers.retryCount = 0)
    /\ [][\A c \in Channels :
             (consumers[c].pc = "idle" /\ consumers'[c].pc = "attempt")
                => /\ consumers'[c].retryCount = 0
                   /\ consumers'[c].message.retryCount = 0]_vars

\* a message whose count had been raised by an in-process retry was nacked
\* with requeue: it waits on its queue with retryCount 0
C35_Witness ==
    \E c \in Channels :
        \E body \in QueuedBodies(c) :
            /\ body.messageId \in Delivering
            /\ hist[body.messageId].requeued
            /\ hist[body.messageId].retryCount >= 1
            /\ body.retryCount = 0

(***************************************************************************)
(* The pre-hash string (checked under SpecSeparator)                       *)
(***************************************************************************)
\* the input that a queued message was built from, as far as the dedup key
\* goes
InputOf(message) ==
    MkInput(message.channel, message.recipient, << >>, message.body)

\* C36 as stated: two valid inputs that differ in channel, recipient or body
\* never have the same pre-hash string, so that neither is taken for a
\* duplicate of the other: a call with a valid input that was answered as a
\* duplicate has a pre-hash string different from that of every enqueued
\* message with another channel, recipient or body.
C36_Original_PreHashIsInjective ==
    \A message \in QueuedMessages :
        (/\ Returned
         /\ last.cacheHit
         /\ Valid(last.input)
         /\ ~SameTriple(message, last.input))
        => PreHash(last.input) # PreHash(InputOf(message))

(***************************************************************************)
(* routeMessage called directly (checked under SpecRouteMessage)           *)
(***************************************************************************)
\* C37 as stated: for every channel other than email, sms and whatsapp,
\* "dlq" included, routeMessage throws and enqueues nothing.  (The text of
\* the error is left open here: the queues stay as they are and the caller
\* gets an error outcome.)
C37_Original_OnlyTheThreeChannelsAreAccepted ==
    [][\A r \in Requests :
          (RouteStep(r) /\ calls[r].input.channel \notin Channels)
             => /\ queues' = queues
                /\ ErrorOutcome(last')]_vars

====
